---- MODULE Spec2Model ----
(***************************************************************************)
(* Model of fierce.py: the DNS reconnaissance pipeline fierce(), the       *)
(* class-C address arithmetic (get_class_c_network, traverse_expander,     *)
(* wide_expander) and the reverse-lookup batch find_nearby.                *)
(*                                                                         *)
(* An IPv4 address is the pair <<net, host>> with int(ip) = net*256+host,  *)
(* net in 0..2^24-1 and host in 0..255, so that the full 32-bit range is   *)
(* representable with the model checker's integers.                        *)
(***************************************************************************)
EXTENDS Integers, Sequences, FiniteSets, TLC

VARIABLES cfg, pc, out, log, visited, idx, ips, batches, call

vars == <<cfg, pc, out, log, visited, idx, ips, batches, call>>

(***************************************************************************)
(* Bounds of the model                                                     *)
(***************************************************************************)
MaxTraverse == 2
MaxSubs == 2

(***************************************************************************)
(* Address arithmetic                                                      *)
(***************************************************************************)
ClassCSize == 256
MaxNet == 2 ^ 24 - 1

Ip(a, b, c, d) == <<(a * 256 + b) * 256 + c, d>>

\* ipaddress.IPv4Address(ip + i): the address int(ip)+i, or AddressValueError
\* when the integer is negative or >= 2**32.
IPv4Address(ip, i) ==
    LET h == ip[2] + i
        net == ip[1] + (h \div ClassCSize)
    IN  IF net < 0 \/ net > MaxNet
        THEN [raised |-> TRUE, val |-> ip]
        ELSE [raised |-> FALSE, val |-> <<net, h % ClassCSize>>]

\* Mutant: the network is the /23 around the address
get_class_c_network_Slash23(ip) ==
    LET floored == <<ip[1] - (ip[1] % 2), 0>>
    IN  [k \in 1..(2 * ClassCSize) |->
            <<floored[1] + ((k - 1) \div ClassCSize), (k - 1) % ClassCSize>>]

\* Mutant: the usable hosts of the network only, as class_c.hosts() lists them
get_class_c_network_Hosts(ip) ==
    LET floored == <<ip[1], ip[2] - (ip[2] % ClassCSize)>>
    IN  [k \in 1..(ClassCSize - 2) |-> <<floored[1], floored[2] + k>>]

\* floored = ip - (ip % 2**8); the /24 network anchored there, as the list of
\* its addresses in ascending order (list(class_c)).
get_class_c_network(ip) ==
    LET floored == <<ip[1], ip[2] - (ip[2] % ClassCSize)>>
    IN  [k \in 1..ClassCSize |-> <<floored[1], floored[2] + (k - 1)>>]

ToSet(s) == {s[k] : k \in DOMAIN s}

InNetwork(i, class_c) == i \in ToSet(class_c)

\* traverse_expander(ip, n): line 41 builds every address ip+i, i in -n..n
\* (raising when one of them is not an IPv4 address), line 42 keeps those of
\* the class-C network.
traverse_expander(ip, n) ==
    LET class_c == get_class_c_network(ip)
        built == [k \in 1..(2 * n + 1) |-> IPv4Address(ip, (k - 1) - n)]
        result == [k \in DOMAIN built |-> built[k].val]
    IN  IF \E k \in DOMAIN built : built[k].raised
        THEN [raised |-> TRUE, val |-> <<>>]
        ELSE [raised |-> FALSE,
              val |-> SelectSeq(result, LAMBDA i : InNetwork(i, class_c))]

wide_expander(ip) ==
    LET class_c == get_class_c_network(ip)
    IN  [raised |-> FALSE, val |-> class_c]

(***************************************************************************)
(* Inputs of a run: the configuration (kwargs) and the answers of the DNS  *)
(* collaborator                                                            *)
(***************************************************************************)
None == <<>>
Some(x) == <<x>>

H4 == Ip(10, 0, 0, 4)
H5 == Ip(10, 0, 0, 5)
H6 == Ip(10, 0, 0, 6)
H9 == Ip(10, 0, 1, 9)
Low == Ip(0, 0, 0, 1)

Labels == <<"www", "mail", "ftp">>

\* kwargs["subdomains"] (or the stripped lines of the subdomain file)
SubdomainLists == {SubSeq(Labels, 1, k) : k \in 0..MaxSubs}

\* kwargs["range"]: absent, or a CIDR network
Ranges == {None, Some([base |-> H4, prefixlen |-> 31])}

\* Hostname texts (v[0].to_text()) and search substrings, as character
\* sequences
HostA == <<"a", ".", "x">>
HostB == <<"b", ".", "y">>
SubX == <<".", "x">>
SubZ == <<"z">>

\* kwargs["search"]: None or an empty list (both false), or a list of
\* substrings
Searches == {<<>>, <<SubZ, SubX>>}

\* kwargs["delay"]: None, or seconds
Delays == {None, Some(1)}

\* The configurations of the runs explored: in wide mode the window is 0 or
\* 1 and there is no search list, and a delay comes without a range and
\* without a search list
Configs ==
    {c \in [domain : BOOLEAN, range : Ranges, wide : BOOLEAN,
            traverse : {None} \cup {Some(n) : n \in 0..MaxTraverse},
            subdomains : SubdomainLists, search : Searches, delay : Delays] :
        /\ c.wide => (c.traverse \in {Some(0), Some(1)} /\ c.search = <<>>)
        /\ c.delay # None => (c.range = None /\ c.search = <<>>)}

\* Answers of resolver.query: a record set, NXDOMAIN, or another exception
Absent == [kind |-> "NXDOMAIN", rrset |-> <<>>]
Failure == [kind |-> "exception", rrset |-> <<>>]
Answer(rrset) == [kind |-> "answer", rrset |-> rrset]

NSAnswers == {Absent, Failure, Answer(<<"ns1", "ns2">>)}
SOAAnswers == {Absent, Failure, Answer(<<"master">>)}
MasterAnswers == {Absent, Failure, Answer(<<H9>>)}
AAnswers ==
    {Absent, Failure, Answer(<<H5>>), Answer(<<H4, H9>>), Answer(<<Low>>)}
WildcardAnswers == {Absent, Failure, Answer(<<H5>>)}

\* Outcomes of dns.zone.from_xfr(dns.query.xfr(address, domain))
XfrOutcomes == {"zone", "ConnectionResetError", "FormError", "exception"}

\* PTR answers of one batch: the hostname of the addresses that have a PTR
\* record, and the addresses whose query raises an exception other than
\* NXDOMAIN
PtrNames ==
    {[a \in {} |-> HostA],
     [a \in {H4, H6} |-> IF a = H4 THEN HostA ELSE HostB]}
PtrWorlds == {[names |-> n, fails |-> f] : n \in PtrNames, f \in SUBSET {H5}}

(***************************************************************************)
(* query, zone_transfer                                                    *)
(***************************************************************************)
\* Mutant: NXDOMAIN is not caught
query_NoCatch(answer) ==
    IF answer.kind = "answer"
    THEN [raised |-> FALSE, val |-> Some(answer.rrset)]
    ELSE [raised |-> TRUE, val |-> None]

\* query(): NXDOMAIN becomes None, every other exception propagates
query(answer) ==
    IF answer.kind = "NXDOMAIN" THEN [raised |-> FALSE, val |-> None]
    ELSE IF answer.kind = "exception" THEN [raised |-> TRUE, val |-> None]
    ELSE [raised |-> FALSE, val |-> Some(answer.rrset)]

\* Mutant: only the connection reset is caught
zone_transfer_ResetOnly(outcome) ==
    IF outcome = "ConnectionResetError" THEN [raised |-> FALSE, val |-> None]
    ELSE IF outcome = "zone" THEN [raised |-> FALSE, val |-> Some("zone")]
    ELSE [raised |-> TRUE, val |-> None]

\* zone_transfer(): connection reset and FormError become None
zone_transfer(outcome) ==
    IF outcome \in {"ConnectionResetError", "FormError"}
    THEN [raised |-> FALSE, val |-> None]
    ELSE IF outcome = "zone" THEN [raised |-> FALSE, val |-> Some("zone")]
    ELSE [raised |-> TRUE, val |-> None]

(***************************************************************************)
(* find_nearby                                                             *)
(***************************************************************************)
\* The answer of the resolver to the PTR query of ip under the PTR answers w
PtrAnswer(w, ip) ==
    IF ip \in w.fails THEN Failure
    ELSE IF ip \in DOMAIN w.names THEN Answer(<<w.names[ip]>>)
    ELSE Absent

\* Mutant: NXDOMAIN is not caught
reverse_query_NoCatch(w, ip) ==
    IF PtrAnswer(w, ip).kind = "NXDOMAIN" THEN [raised |-> TRUE, val |-> None]
    ELSE query(PtrAnswer(w, ip))

\* reverse_query(resolver, ip) for one address under the PTR answers w
reverse_query(w, ip) == query(PtrAnswer(w, ip))

\* "domain in address": domain is a substring of address
Contains(sub, text) ==
    \E i \in 0..(Len(text) - Len(sub)) :
        SubSeq(text, i + 1, i + Len(sub)) = sub

\* Mutant: every substring must occur (all() for any())
search_filter_All(domains, address) ==
    \A k \in DOMAIN domains : Contains(domains[k], address)

\* search_filter(domains, address)
search_filter(domains, address) ==
    \E k \in DOMAIN domains : Contains(domains[k], address)

\* Line 57 over a list: the addresses are queried in list order and the first
\* exception ends the comprehension.
IterateList(l, w) ==
    LET bad == {k \in DOMAIN l : reverse_query(w, l[k]).raised}
        stop == IF bad = {} THEN Len(l)
                ELSE CHOOSE k \in bad : \A j \in bad : k <= j
    IN  {[queried |-> {l[k] : k \in 1..stop}, raised |-> bad # {}]}

\* Line 57 over a set: the iteration order of a set is unspecified, so when an
\* address of the batch raises, the addresses queried before it are any part
\* of the batch that does not raise.
IterateSet(s, w) ==
    LET bad == {i \in s : reverse_query(w, i).raised}
        good == s \ bad
        named == good \cap DOMAIN w.names
    IN  IF bad = {} THEN {[queried |-> s, raised |-> FALSE]}
        ELSE {[queried |-> n \cup u \cup {e}, raised |-> TRUE] :
                  n \in SUBSET named, u \in {{}, good \ named}, e \in bad}

\* Lines 57-67 for one iteration it of the batch: what is queried, whether an
\* exception propagates, and the mapping address -> hostname that is printed,
\* as a set of pairs (empty: no output). filter_func is None or the list of
\* substrings of the partial of line 136.
find_nearby(it, w, filter_func) ==
    LET reversed_ips ==
            {i \in it.queried : reverse_query(w, i).val # None}
        text(i) == reverse_query(w, i).val[1][1]
        filtered ==
            IF filter_func # None
            THEN {i \in reversed_ips : search_filter(filter_func[1], text(i))}
            ELSE reversed_ips
    IN  [queried |-> it.queried, raised |-> it.raised,
         report |-> IF it.raised THEN {} ELSE {<<i, text(i)>> : i \in filtered}]

(***************************************************************************)
(* State of a run of fierce()                                              *)
(*   cfg      kwargs                                                       *)
(*   pc       position in fierce()                                         *)
(*   out      what has been printed so far                                 *)
(*   log      the DNS operations issued so far                             *)
(*   visited  the set visited (line 115)                                   *)
(*   idx      index of the current subdomain of the loop of line 117       *)
(*   ips      the batch passed to find_nearby (line 138)                   *)
(*   batches  per expanded hit, the candidates of the expander and the     *)
(*            new addresses left by line 138                               *)
(*   call     a call of an expander on its own (specification SpecExpand)  *)
(***************************************************************************)
NoCall == [fn |-> "none", ip |-> <<0, 0>>, n |-> 0, state |-> "none",
           raised |-> FALSE, val |-> <<>>]

Op(op, name, res, addrs) ==
    [op |-> op, name |-> name, res |-> res, addrs |-> addrs]
Line(kind, name, addrs) == [kind |-> kind, name |-> name, addrs |-> addrs]

\* Mutant: the line is buffered instead of written
WriteLine_Buffered(o, line) == o

\* print(): the line is written to the output at once
WriteLine(o, line) == Append(o, line)

\* A call of find_nearby on batch under the PTR answers w (kept for the
\* addresses of the batch): the addresses queried and whether it raised
PtrOp(name, r, batch, w) ==
    [op |-> "PTR", name |-> name,
     res |-> IF r.raised THEN "exception" ELSE "answer",
     addrs |-> r.queried, batch |-> batch,
     names |-> [a \in DOMAIN w.names \cap batch |-> w.names[a]],
     fails |-> w.fails \cap batch]

RandomLabel == "random"

Init ==
    /\ cfg \in Configs
    /\ pc = "start"
    /\ out = <<>>
    /\ log = <<>>
    /\ visited = {}
    /\ idx = 0
    /\ ips = {}
    /\ batches = <<>>
    /\ call = NoCall

\* Mutant: the last address of the network is left out
NetworkList_Short(r) ==
    LET size == 2 ^ (32 - r.prefixlen) - 1
    IN  [k \in 1..size |-> IPv4Address(r.base, k - 1).val]

\* list(ipaddress.IPv4Network(range))
NetworkList(r) ==
    LET size == 2 ^ (32 - r.prefixlen)
    IN  [k \in 1..size |-> IPv4Address(r.base, k - 1).val]

\* Lines 83-85: the internal range scan
RangeScan ==
    /\ pc = "start"
    /\ cfg.range # None
    /\ \E w \in PtrWorlds :
         \E it \in IterateList(NetworkList(cfg.range[1]), w) :
            LET r == find_nearby(it, w, None)
            IN  /\ log' = Append(log, PtrOp("range", r,
                                ToSet(NetworkList(cfg.range[1])), w))
                /\ out' = IF r.report = {} THEN out
                          ELSE WriteLine(out, Line("Nearby", "range", r.report))
                /\ pc' = IF r.raised THEN "error" ELSE "domain"
    /\ UNCHANGED <<cfg, visited, idx, ips, batches, call>>

\* Line 83 when no range is configured
NoRange ==
    /\ pc = "start"
    /\ cfg.range = None
    /\ pc' = "domain"
    /\ UNCHANGED <<cfg, out, log, visited, idx, ips, batches, call>>

\* Lines 87-88
NoDomain ==
    /\ pc = "domain"
    /\ ~cfg.domain
    /\ pc' = "done"
    /\ UNCHANGED <<cfg, out, log, visited, idx, ips, batches, call>>

\* Lines 90-92: None is not iterable, so an absent NS record raises
QueryNS ==
    /\ pc = "domain"
    /\ cfg.domain
    /\ \E answer \in NSAnswers :
         LET ns == query(answer)
         IN  /\ log' = Append(log, Op("NS", "domain", answer.kind, {}))
             /\ IF ns.raised \/ ns.val = None
                THEN pc' = "error" /\ out' = out
                ELSE /\ pc' = "soa"
                     /\ out' = WriteLine(out, Line("NS", "domain", ns.val[1]))
    /\ UNCHANGED <<cfg, visited, idx, ips, batches, call>>

\* Mutant: an absent SOA record skips the zone transfer instead of raising
AfterSOA_Soft(soa) ==
    IF soa.raised THEN "error"
    ELSE IF soa.val = None THEN "wildcard" ELSE "master"

\* Line 95: soa[0] raises when soa is None
AfterSOA(soa) ==
    IF soa.raised \/ soa.val = None THEN "error" ELSE "master"

\* Lines 94-95
QuerySOA ==
    /\ pc = "soa"
    /\ \E answer \in SOAAnswers :
         LET soa == query(answer)
         IN  /\ log' = Append(log, Op("SOA", "domain", answer.kind, {}))
             /\ pc' = AfterSOA(soa)
    /\ UNCHANGED <<cfg, out, visited, idx, ips, batches, call>>

\* Lines 96-98
QueryMaster ==
    /\ pc = "master"
    /\ \E answer \in MasterAnswers :
         LET master == query(answer)
         IN  /\ log' = Append(log, Op("A", "master", answer.kind, {}))
             /\ IF master.raised \/ master.val = None
                THEN pc' = "error" /\ out' = out
                ELSE /\ pc' = "xfr"
                     /\ out' = WriteLine(out, Line("SOA", "master",
                                                {master.val[1][1]}))
    /\ UNCHANGED <<cfg, visited, idx, ips, batches, call>>

\* Mutant: the return of line 104 is missing
AfterZone_NoReturn(zone) == "wildcard"

\* Lines 102-104: a zone ends the run
AfterZone(zone) ==
    IF zone.val # None THEN "done" ELSE "wildcard"

\* Lines 100-104
ZoneTransfer ==
    /\ pc = "xfr"
    /\ \E outcome \in XfrOutcomes :
         LET zone == zone_transfer(outcome)
         IN  /\ log' = Append(log, Op("AXFR", "master", outcome, {}))
             /\ IF zone.raised
                THEN pc' = "error" /\ out' = out
                ELSE IF zone.val # None
                THEN /\ pc' = AfterZone(zone)
                     /\ out' = WriteLine(WriteLine(out, Line("Zone", "success", {})),
                                    Line("ZoneContents", "zone", {}))
                ELSE /\ pc' = AfterZone(zone)
                     /\ out' = WriteLine(out, Line("Zone", "failure", {}))
    /\ UNCHANGED <<cfg, visited, idx, ips, batches, call>>

\* Mutant: a resolving probe ends the run
AfterWildcard_Stops(wildcard) ==
    IF wildcard.val # None THEN "done" ELSE "loop"

\* Lines 108-117: whatever the probe answered, the subdomain loop is next
AfterWildcard(wildcard) == "loop"

\* Lines 106-115
WildcardProbe ==
    /\ pc = "wildcard"
    /\ \E answer \in WildcardAnswers :
         LET wildcard == query(answer)
         IN  /\ log' = Append(log, Op("A", RandomLabel, answer.kind, {}))
             /\ IF wildcard.raised
                THEN pc' = "error" /\ UNCHANGED <<out, idx, visited>>
                ELSE /\ pc' = AfterWildcard(wildcard)
                     /\ idx' = 1
                     /\ visited' = {}
                     /\ out' = WriteLine(out, Line("Wildcard",
                            IF wildcard.val # None THEN "success" ELSE "failure",
                            {}))
    /\ UNCHANGED <<cfg, ips, batches, call>>

\* Lines 127-132: the candidates of a hit at ip; skip when the hit is not
\* expanded
Expand(c, ip) ==
    IF c.wide
    THEN [skip |-> FALSE, res |-> wide_expander(ip)]
    ELSE IF c.traverse # None /\ c.traverse[1] # 0
    THEN [skip |-> FALSE, res |-> traverse_expander(ip, c.traverse[1])]
    ELSE [skip |-> TRUE, res |-> [raised |-> FALSE, val |-> <<>>]]

\* Mutant: the candidates are not filtered
NewIps_NoFilter(candidates, seen) == candidates

\* Line 138: ips = set(ips) - set(visited)
NewIps(candidates, seen) == candidates \ seen

\* Mutant: visited is replaced by the new batch
UpdateVisited_Replaces(seen, new) == new

\* Mutant: visited is not updated
UpdateVisited_Forgets(seen, new) == seen

\* Line 139: visited |= ips
UpdateVisited(seen, new) == seen \cup new

\* Mutant: the hit is the last address of the record set
HitAddress_Last(rrset) == rrset[Len(rrset)]

\* Line 124: the hit is record[0], the first address of the record set
HitAddress(rrset) == rrset[1]

\* The A query of a label (line 119), with the record set it was answered
LabelOp(label, answer) ==
    [op |-> "A", name |-> label, res |-> answer.kind, addrs |-> {},
     rrset |-> answer.rrset]

\* Lines 117-139: one subdomain of the list, up to the call of find_nearby
QuerySubdomain ==
    /\ pc = "loop"
    /\ idx <= Len(cfg.subdomains)
    /\ \E answer \in AAnswers :
         LET record == query(answer)
             ip == HitAddress(record.val[1])
             e == Expand(cfg, ip)
             new == NewIps(ToSet(e.res.val), visited)
             found == WriteLine(out, Line("Found", cfg.subdomains[idx], {ip}))
         IN  /\ log' = Append(log, LabelOp(cfg.subdomains[idx], answer))
             /\ IF record.raised
                THEN /\ pc' = "error"
                     /\ UNCHANGED <<out, idx, visited, ips, batches>>
                ELSE IF record.val = None
                THEN /\ pc' = "loop"
                     /\ idx' = idx + 1
                     /\ UNCHANGED <<out, visited, ips, batches>>
                ELSE IF e.skip
                THEN /\ pc' = "loop"
                     /\ idx' = idx + 1
                     /\ out' = found
                     /\ UNCHANGED <<visited, ips, batches>>
                ELSE IF e.res.raised
                THEN /\ pc' = "error"
                     /\ out' = found
                     /\ UNCHANGED <<idx, visited, ips, batches>>
                ELSE /\ pc' = "nearby"
                     /\ out' = found
                     /\ ips' = new
                     /\ visited' = UpdateVisited(visited, new)
                     /\ batches' = Append(batches,
                            [cand |-> ToSet(e.res.val), new |-> new])
                     /\ idx' = idx
    /\ UNCHANGED <<cfg, call>>

\* Lines 134-136: the filter of the reverse lookups, None without search
FilterFunc(c) == IF c.search # <<>> THEN Some(c.search) ELSE None

\* Lines 143-144: time.sleep(delay) once find_nearby has returned
Sleep(c, raised, label) ==
    IF ~raised /\ c.delay # None /\ c.delay[1] # 0
    THEN <<Op("SLEEP", label, "delay", {})>>
    ELSE <<>>

\* Lines 141-144: the reverse lookups of the batch of a hit
FindNearby ==
    /\ pc = "nearby"
    /\ \E w \in PtrWorlds :
         \E it \in IterateSet(ips, w) :
            LET r == find_nearby(it, w, FilterFunc(cfg))
            IN  /\ log' = Append(log, PtrOp(cfg.subdomains[idx], r, ips, w))
                          \o Sleep(cfg, r.raised, cfg.subdomains[idx])
                /\ out' = IF r.report = {} THEN out
                          ELSE WriteLine(out, Line("Nearby", cfg.subdomains[idx],
                                                r.report))
                /\ pc' = IF r.raised THEN "error" ELSE "loop"
                /\ idx' = IF r.raised THEN idx ELSE idx + 1
    /\ UNCHANGED <<cfg, visited, ips, batches, call>>

\* Line 117 when the list is exhausted: fierce() returns
LoopEnd ==
    /\ pc = "loop"
    /\ idx > Len(cfg.subdomains)
    /\ pc' = "done"
    /\ UNCHANGED <<cfg, out, log, visited, idx, ips, batches, call>>

Next ==
    \/ RangeScan
    \/ NoRange
    \/ NoDomain
    \/ QueryNS
    \/ QuerySOA
    \/ QueryMaster
    \/ ZoneTransfer
    \/ WildcardProbe
    \/ QuerySubdomain
    \/ FindNearby
    \/ LoopEnd

Spec == Init /\ [][Next]_vars

(***************************************************************************)
(* The expanders on their own: a call of traverse_expander(ip, n) or of    *)
(* wide_expander(ip) on an address of the low, a middle or the high end of *)
(* the IPv4 space                                                          *)
(***************************************************************************)
MaxWindow == 3

ExpandNets == {0, Ip(10, 0, 0, 0)[1], MaxNet}
ExpandHosts == {0, 1, 2, 3, 5, 128, 252, 253, 254, 255}
ExpandIps == ExpandNets \X ExpandHosts

InitExpand ==
    /\ cfg = [domain |-> FALSE, range |-> None, wide |-> FALSE,
              traverse |-> None, subdomains |-> <<>>, search |-> <<>>,
              delay |-> None]
    /\ pc = "expand"
    /\ out = <<>>
    /\ log = <<>>
    /\ visited = {}
    /\ idx = 0
    /\ ips = {}
    /\ batches = <<>>
    /\ \E fn \in {"traverse_expander", "wide_expander"}, ip \in ExpandIps,
          n \in 0..MaxWindow :
         /\ fn = "wide_expander" => n = 0
         /\ call = [fn |-> fn, ip |-> ip, n |-> n, state |-> "called",
                    raised |-> FALSE, val |-> <<>>]

CallTraverse ==
    /\ call.fn = "traverse_expander"
    /\ call.state = "called"
    /\ LET r == traverse_expander(call.ip, call.n)
       IN  call' = [call EXCEPT !.state = "returned", !.raised = r.raised,
                                !.val = r.val]
    /\ UNCHANGED <<cfg, pc, out, log, visited, idx, ips, batches>>

CallWide ==
    /\ call.fn = "wide_expander"
    /\ call.state = "called"
    /\ LET r == wide_expander(call.ip)
       IN  call' = [call EXCEPT !.state = "returned", !.raised = r.raised,
                                !.val = r.val]
    /\ UNCHANGED <<cfg, pc, out, log, visited, idx, ips, batches>>

NextExpand == CallTraverse \/ CallWide

SpecExpand == InitExpand /\ [][NextExpand]_vars

(***************************************************************************)
(* Properties                                                              *)
(***************************************************************************)
RECURSIVE SumNew(_)
SumNew(bs) ==
    IF bs = <<>> THEN 0
    ELSE Cardinality(Head(bs).new) + SumNew(Tail(bs))

\* The PTR operations of the log, of the range scan and of the subdomain loop
PtrOps == {k \in DOMAIN log : log[k].op = "PTR"}
RangePtrOps == {k \in PtrOps : log[k].name = "range"}
LoopPtrOps == PtrOps \ RangePtrOps
PtrAddrs == UNION {log[k].addrs : k \in PtrOps}

\* The number of reverse lookups of address a among the operations ks
Lookups(a, ks) == Cardinality({k \in ks : a \in log[k].addrs})

\* The last operation and the last printed line
LastOp == log[Len(log)]
LastLine == out[Len(out)]

\* C1 as stated: over the whole run every address is reverse-looked-up at
\* most once, an internal range included.
C1_AtMostOncePerRun == \A a \in PtrAddrs : Lookups(a, PtrOps) <= 1

\* C1 as amended: every address is reverse-looked-up at most once by the
\* subdomain loop, however the neighbourhoods of the hits overlap, and at
\* most once by the internal range scan.
C1_AtMostOncePerStage ==
    \A a \in PtrAddrs :
        /\ Lookups(a, LoopPtrOps) <= 1
        /\ Lookups(a, RangePtrOps) <= 1

\* C1 witness: a finished run with a range scan and two hits whose
\* neighbourhoods overlap, both reverse-looked-up.
C1_Witness ==
    /\ pc = "done"
    /\ RangePtrOps # {}
    /\ Cardinality(LoopPtrOps) = 2
    /\ Len(batches) = 2
    /\ batches[1].cand \cap batches[2].cand # {}
    /\ \A k \in LoopPtrOps : log[k].addrs # {}

IsZoneOp(k) == log[k].op = "AXFR"
IsWildcardOp(k) == log[k].op = "A" /\ log[k].name = RandomLabel
IsLabelOp(k) == log[k].op = "A" /\ log[k].name \notin {"master", RandomLabel}
Printed(kind, name) ==
    \E j \in DOMAIN out : out[j].kind = kind /\ out[j].name = name

\* The labels whose A record has been queried, in the order of the queries
QueriedLabels ==
    LET ops == SelectSeq(log, LAMBDA o :
                   o.op = "A" /\ o.name \notin {"master", RandomLabel})
    IN  IF ops = <<>> THEN <<>> ELSE [k \in 1..Len(ops) |-> ops[k].name]

\* C2: a zone transfer that returns a zone is the last DNS operation of the
\* run: "Zone: success" and the contents are printed and the run is over, so
\* no wildcard probe, subdomain query or reverse lookup follows.
C2_ZoneShortCircuits ==
    \A k \in DOMAIN log :
        (IsZoneOp(k) /\ log[k].res = "zone") =>
            /\ k = Len(log)
            /\ pc = "done"
            /\ Len(out) >= 2
            /\ out[Len(out) - 1].kind = "Zone"
            /\ out[Len(out) - 1].name = "success"
            /\ LastLine.kind = "ZoneContents"

\* C2 witness: a run with subdomains to try that ended on a zone.
C2_Witness ==
    /\ pc = "done"
    /\ Len(log) > 0
    /\ IsZoneOp(Len(log))
    /\ LastOp.res = "zone"
    /\ Len(cfg.subdomains) = MaxSubs

\* C3: after a zone transfer that fails with a connection reset or a format
\* error the run is not aborted: "Zone: failure" is printed and the next DNS
\* operation is the wildcard probe.
C3_ZoneFailureContinues ==
    \A k \in DOMAIN log :
        (IsZoneOp(k) /\ log[k].res \in {"ConnectionResetError", "FormError"})
        =>  /\ Printed("Zone", "failure")
            /\ ~Printed("Zone", "success")
            /\ k = Len(log) => pc = "wildcard"
            /\ k < Len(log) => IsWildcardOp(k + 1)

\* C3 witness: a format error followed by the wildcard probe.
C3_Witness ==
    \E k \in DOMAIN log :
        /\ IsZoneOp(k)
        /\ log[k].res = "FormError"
        /\ k < Len(log)
        /\ IsWildcardOp(k + 1)

\* C4 as stated: an absent NS record does not abort the run: an empty server
\* list is printed and the SOA query is next.
C4_AbsentNSContinues ==
    \A k \in DOMAIN log :
        (log[k].op = "NS" /\ log[k].res = "NXDOMAIN") =>
            /\ pc # "error" \/ k < Len(log)
            /\ Printed("NS", "domain")
            /\ k = Len(log) => pc = "soa"
            /\ k < Len(log) => log[k + 1].op = "SOA"

\* C5: an absent SOA record, or an absent A record of the SOA master, ends
\* the run with an error as its last DNS operation: no zone transfer, probe
\* or subdomain query was or will be issued, and a configured range scan has
\* reverse-looked-up its whole range before.
C5_AbsentSOAIsFatal ==
    \A k \in DOMAIN log :
        (/\ log[k].op = "SOA" \/ (log[k].op = "A" /\ log[k].name = "master")
         /\ log[k].res = "NXDOMAIN")
        =>  /\ k = Len(log)
            /\ pc = "error"
            /\ \A j \in DOMAIN log :
                   ~IsZoneOp(j) /\ ~IsWildcardOp(j) /\ ~IsLabelOp(j)
            /\ cfg.range # None =>
                   /\ RangePtrOps = {1}
                   /\ log[1].addrs = ToSet(NetworkList(cfg.range[1]))

\* C5 witness: the SOA record is absent in a run that scanned a range.
C5_Witness ==
    /\ pc = "error"
    /\ Len(log) > 0
    /\ LastOp.op = "SOA"
    /\ LastOp.res = "NXDOMAIN"
    /\ cfg.range # None

\* C6: a wildcard probe that resolves prints "Wildcard: success" and is
\* followed by the subdomain loop at its first label; the labels queried are
\* always a prefix of the list and, when the run returns, the whole list, as
\* after a probe that does not resolve.
C6_WildcardDoesNotStop ==
    \A k \in DOMAIN log :
        (IsWildcardOp(k) /\ log[k].res \in {"answer", "NXDOMAIN"}) =>
            /\ Printed("Wildcard",
                       IF log[k].res = "answer" THEN "success" ELSE "failure")
            /\ k = Len(log) => (pc \in {"loop", "done"} /\ idx = 1)
            /\ k < Len(log) => IsLabelOp(k + 1)
            /\ Len(QueriedLabels) <= Len(cfg.subdomains)
            /\ QueriedLabels = SubSeq(cfg.subdomains, 1, Len(QueriedLabels))
            /\ pc = "done" => QueriedLabels = cfg.subdomains

\* C6 witness: a run that returned after a resolving probe and a whole list.
C6_Witness ==
    /\ pc = "done"
    /\ \E k \in DOMAIN log : IsWildcardOp(k) /\ log[k].res = "answer"
    /\ Len(QueriedLabels) = MaxSubs

\* The addresses of [ip-n, ip+n] in the class-C network of ip
Window(ip, n) ==
    {<<ip[1], h>> : h \in {h \in 0..(ClassCSize - 1) :
                               ip[2] - n <= h /\ h <= ip[2] + n}}

\* C7 as stated: traverse_expander(A, n) returns, without raising, exactly
\* the addresses of [A-n, A+n] in the class-C network of A, for every
\* address of the 32-bit space.
C7_TraverseExact ==
    (call.fn = "traverse_expander" /\ call.state = "returned") =>
        /\ ~call.raised
        /\ ToSet(call.val) = Window(call.ip, call.n)
        /\ Len(call.val) = Cardinality(Window(call.ip, call.n))

\* C8: wide_expander(A) returns exactly the 256 addresses A - (A mod 256) + k,
\* k in 0..255, the .0 and .255 ones included, A among them.
C8_WideExact ==
    (call.fn = "wide_expander" /\ call.state = "returned") =>
        /\ ~call.raised
        /\ Len(call.val) = 256
        /\ ToSet(call.val) = {<<call.ip[1], k>> : k \in 0..255}
        /\ Cardinality(ToSet(call.val)) = 256
        /\ call.ip \in ToSet(call.val)

\* C8 witness: the call on 255.255.255.255 has returned.
C8_Witness ==
    /\ call.fn = "wide_expander"
    /\ call.state = "returned"
    /\ call.ip = <<MaxNet, 255>>

\* C9: the batches of new addresses passed on by the visited filter are
\* pairwise disjoint, their sizes add up to the size of the union of the
\* candidate batches, and the batch handed to find_nearby is the new one.
C9_NewBatchesPartition ==
    /\ \A i, j \in DOMAIN batches :
           i # j => batches[i].new \cap batches[j].new = {}
    /\ SumNew(batches) =
           Cardinality(UNION {batches[i].cand : i \in DOMAIN batches})
    /\ pc = "nearby" => ips = batches[Len(batches)].new

\* C9 witness: 10.0.0.4 was passed on by the first hit, is a candidate of the
\* second hit and is not in the second batch.
C9_Witness ==
    /\ Len(batches) = 2
    /\ H4 \in batches[1].new
    /\ H4 \in batches[2].cand
    /\ H4 \notin batches[2].new
    /\ batches[2].new # {}

\* C10 as stated: right after a hit at a, the candidates are wide_expander(a)
\* in wide mode, else traverse_expander(a, n) for every configured window
\* n >= 0, and the hit is not expanded only when neither is configured.
C10_ExpansionDispatch ==
    (/\ pc \in {"loop", "nearby", "error"}
     /\ Len(log) > 0
     /\ IsLabelOp(Len(log))
     /\ LastOp.res = "answer") =>
        LET a == CHOOSE x \in LastLine.addrs : TRUE
            n == cfg.traverse[1]
        IN  /\ LastLine.kind = "Found"
            /\ IF cfg.wide
               THEN /\ pc = "nearby"
                    /\ batches[Len(batches)].cand = ToSet(wide_expander(a).val)
               ELSE IF cfg.traverse # None
               THEN \/ traverse_expander(a, n).raised /\ pc = "error"
                    \/ /\ pc = "nearby"
                       /\ batches[Len(batches)].cand =
                              ToSet(traverse_expander(a, n).val)
               ELSE pc = "loop"

\* The pairs address, hostname of the PTR records of the batch of operation k
Resolved(k) == {<<a, log[k].names[a]>> : a \in DOMAIN log[k].names}

\* Those whose hostname contains a configured substring, when the call is
\* given a filter (the range scan is given none)
Expected(k) ==
    IF log[k].name = "range" \/ cfg.search = <<>> THEN Resolved(k)
    ELSE {p \in Resolved(k) :
              \E j \in DOMAIN cfg.search : Contains(cfg.search[j], p[2])}

NearbyLines(name) ==
    {j \in DOMAIN out : out[j].kind = "Nearby" /\ out[j].name = name}

\* The batch of operation k is reported as one mapping, or not at all when
\* nothing is left to report
Reports(k) ==
    IF Expected(k) = {} THEN NearbyLines(log[k].name) = {}
    ELSE /\ Cardinality(NearbyLines(log[k].name)) = 1
         /\ \A j \in NearbyLines(log[k].name) : out[j].addrs = Expected(k)

\* C11 as stated: whatever the failure of one PTR query, absence or another
\* error, every address of the batch is queried and the resolved ones are
\* reported.
C11_FailureIsolated ==
    \A k \in PtrOps : log[k].addrs = log[k].batch /\ Reports(k)

\* C11 as amended: absence of a PTR record does not abort the batch: when no
\* query of the batch raises another error, every address is queried and the
\* resolved ones are reported. A query that raises another error ends
\* find_nearby and the run: part of the batch is queried and nothing of it is
\* reported.
C11_AbsenceIsolated ==
    \A k \in PtrOps :
        /\ log[k].fails = {} =>
               /\ log[k].res = "answer"
               /\ log[k].addrs = log[k].batch
               /\ Reports(k)
        /\ log[k].fails # {} =>
               /\ log[k].res = "exception"
               /\ k = Len(log)
               /\ pc = "error"
               /\ log[k].addrs \subseteq log[k].batch
               /\ log[k].addrs \cap log[k].fails # {}
               /\ NearbyLines(log[k].name) = {}

\* C11 witness: a batch of a hit with an absent and a resolved address, all
\* queried.
C11_Witness ==
    \E k \in LoopPtrOps :
        /\ log[k].fails = {}
        /\ DOMAIN log[k].names # {}
        /\ log[k].batch \ DOMAIN log[k].names # {}
        /\ log[k].addrs = log[k].batch

\* The addresses reported for the batch of operation k
ReportedAddrs(k) ==
    {p[1] : p \in UNION {out[j].addrs : j \in NearbyLines(log[k].name)}}

\* C12: a call of find_nearby that returns reports exactly the addresses of
\* its input that have a PTR record and, when it is given a non-empty list of
\* substrings, whose hostname contains one of them, each with its hostname;
\* when there is none it prints nothing.
C12_ReportsFiltered ==
    \A k \in PtrOps :
        log[k].res = "answer" =>
            LET given == log[k].name # "range" /\ Len(cfg.search) > 0
                keep == {a \in log[k].batch :
                           /\ a \in DOMAIN log[k].names
                           /\ given =>
                                \E j \in DOMAIN cfg.search :
                                    Contains(cfg.search[j], log[k].names[a])}
            IN  /\ ReportedAddrs(k) = keep
                /\ \A j \in NearbyLines(log[k].name) :
                       \A p \in out[j].addrs : p[2] = log[k].names[p[1]]
                /\ keep = {} => NearbyLines(log[k].name) = {}
                /\ Cardinality(NearbyLines(log[k].name)) <= 1

\* C12 witness: with a filter, a batch with two resolved addresses of which
\* one hostname contains a substring of the filter and the other does not.
C12_Witness ==
    \E k \in LoopPtrOps :
        /\ log[k].res = "answer"
        /\ Len(cfg.search) > 0
        /\ DOMAIN log[k].names = {H4, H6}
        /\ ReportedAddrs(k) = {H4}

IsSleepOp(k) == log[k].op = "SLEEP"

\* C13 as stated: with a delay configured, between the A query of a hit,
\* expanded or not, and the A query of the next label the run sleeps once.
C13_SleepAfterEveryHit ==
    (cfg.delay # None /\ cfg.delay[1] # 0) =>
        \A k, j \in DOMAIN log :
            (/\ k < j
             /\ IsLabelOp(k)
             /\ log[k].res = "answer"
             /\ IsLabelOp(j)
             /\ \A m \in (k + 1)..(j - 1) : ~IsLabelOp(m))
            => Cardinality({m \in (k + 1)..(j - 1) : IsSleepOp(m)}) = 1

\* The place of a printed line in the order of the pipeline
LabelIndex(name) ==
    CHOOSE i \in DOMAIN cfg.subdomains : cfg.subdomains[i] = name
Rank(line) ==
    IF line.kind = "Nearby" /\ line.name = "range" THEN 0
    ELSE IF line.kind = "NS" THEN 1
    ELSE IF line.kind = "SOA" THEN 2
    ELSE IF line.kind = "Zone" THEN 3
    ELSE IF line.kind = "ZoneContents" THEN 4
    ELSE IF line.kind = "Wildcard" THEN 5
    ELSE IF line.kind = "Found" THEN 4 + 2 * LabelIndex(line.name)
    ELSE 5 + 2 * LabelIndex(line.name)

\* C14: in every state, the end in an error included, every stage whose
\* lookups have returned has its result in the output already, and the output
\* is in the order of the pipeline: range scan, NS, SOA, zone outcome,
\* wildcard outcome, then hit and nearby batch label by label.
C14_ReportedAsCompleted ==
    /\ \A k \in DOMAIN log :
        /\ (log[k].op = "NS" /\ log[k].res = "answer") => Printed("NS", "domain")
        /\ (log[k].op = "A" /\ log[k].name = "master" /\ log[k].res = "answer")
               => Printed("SOA", "master")
        /\ (IsZoneOp(k) /\ log[k].res = "zone")
               => (Printed("Zone", "success") /\ Printed("ZoneContents", "zone"))
        /\ (IsZoneOp(k) /\ log[k].res \in {"ConnectionResetError", "FormError"})
               => Printed("Zone", "failure")
        /\ (IsWildcardOp(k) /\ log[k].res = "answer")
               => Printed("Wildcard", "success")
        /\ (IsWildcardOp(k) /\ log[k].res = "NXDOMAIN")
               => Printed("Wildcard", "failure")
        /\ (IsLabelOp(k) /\ log[k].res = "answer") => Printed("Found", log[k].name)
        /\ (log[k].op = "PTR" /\ log[k].res = "answer") => Reports(k)
    /\ \A i, j \in DOMAIN out : i < j => Rank(out[i]) < Rank(out[j])

\* C14 witness: a run that ended in an error in the reverse lookups of its
\* second hit, with the range scan, the wildcard outcome and both hits
\* reported.
C14_Witness ==
    /\ pc = "error"
    /\ Len(cfg.subdomains) >= 2
    /\ Len(log) > 0
    /\ LastOp.op = "PTR"
    /\ LastOp.res = "exception"
    /\ LastOp.name = cfg.subdomains[2]
    /\ Printed("Nearby", "range")
    /\ Printed("Wildcard", "failure")
    /\ Printed("Found", cfg.subdomains[1])
    /\ Printed("Found", cfg.subdomains[2])

\* The addresses of the configured range
RangeAddrs ==
    {<<cfg.range[1].base[1], cfg.range[1].base[2] + i>> :
         i \in 0..(2 ^ (32 - cfg.range[1].prefixlen) - 1)}

RangeOnly == cfg.range # None /\ ~cfg.domain

\* C15 as stated: with a range and no domain, once the range scan is over
\* every address of the range has been looked up exactly once, the resolved
\* ones are reported, the run has not ended in an error, and no other query
\* is ever issued.
C15_RangeOnlyAlwaysCompletes ==
    RangeOnly =>
        /\ \A k \in DOMAIN log : log[k].op = "PTR" /\ log[k].name = "range"
        /\ pc # "start" =>
               /\ Len(log) = 1
               /\ log[1].addrs = RangeAddrs
               /\ Reports(1)
               /\ pc \in {"domain", "done"}

\* C15 as amended: with a range and no domain the only operation of the run is
\* the range scan, one reverse lookup per address of the range in list order.
\* When no lookup raises an error other than absence, every address is looked
\* up exactly once, the resolved ones are reported and the run returns
\* (line 88). When a lookup raises, the addresses after it are not looked up,
\* nothing is reported and the run ends with that error. No NS, SOA, zone
\* transfer, wildcard or subdomain query is issued either way.
C15_RangeOnlyCompletesUnlessError ==
    RangeOnly =>
        /\ \A k \in DOMAIN log : log[k].op = "PTR" /\ log[k].name = "range"
        /\ Len(log) <= 1
        /\ pc \in {"start", "domain", "done", "error"}
        /\ pc = "start" <=> Len(log) = 0
        /\ visited = {} /\ batches = <<>>
        /\ pc # "start" =>
               /\ log[1].batch = RangeAddrs
               /\ \A a \in log[1].addrs : Lookups(a, PtrOps) = 1
               /\ log[1].fails = {} =>
                      /\ log[1].res = "answer"
                      /\ log[1].addrs = RangeAddrs
                      /\ Reports(1)
                      /\ pc \in {"domain", "done"}
               /\ log[1].fails # {} =>
                      /\ log[1].res = "exception"
                      /\ log[1].addrs \subseteq RangeAddrs
                      /\ \A a \in log[1].addrs, f \in log[1].fails :
                             a[2] <= f[2]
                      /\ out = <<>>
                      /\ pc = "error"
        /\ pc = "domain" => ENABLED NoDomain

\* C15 witness: a finished run with a range and no domain, one address of the
\* range resolved and reported, the other absent.
C15_Witness ==
    /\ RangeOnly
    /\ pc = "done"
    /\ Len(log) = 1
    /\ log[1].res = "answer"
    /\ DOMAIN log[1].names = {H4}
    /\ log[1].addrs = {H4, H5}
    /\ Printed("Nearby", "range")

\* The A query of a label that found no record
IsAbsentLabelOp(k) == IsLabelOp(k) /\ log[k].res = "NXDOMAIN"

\* What the run has left of label name: its lines and its reverse lookups
LinesOf(name) == {j \in DOMAIN out : out[j].name = name}
PtrOpsOf(name) == {k \in PtrOps : log[k].name = name}

\* C16: a label whose A lookup returns absence is skipped silently. The step
\* that issues the query changes neither the output, nor visited, nor the
\* batches handed to find_nearby, and moves to the next label; nothing is
\* ever printed for the label, no reverse lookup is issued for it, and the
\* next operation of the run, if any, is the A query of the next label.
C16_AbsentLabelSkipped ==
    /\ [](\A k \in DOMAIN log :
             IsAbsentLabelOp(k) =>
                 /\ LinesOf(log[k].name) = {}
                 /\ PtrOpsOf(log[k].name) = {}
                 /\ k < Len(log) =>
                        /\ IsLabelOp(k + 1)
                        /\ LabelIndex(log[k + 1].name)
                               = LabelIndex(log[k].name) + 1
                 /\ k = Len(log) =>
                        /\ pc \in {"loop", "done"}
                        /\ idx = LabelIndex(log[k].name) + 1)
    /\ [][(/\ Len(log') = Len(log) + 1
           /\ log'[Len(log')].op = "A"
           /\ log'[Len(log')].res = "NXDOMAIN"
           /\ pc = "loop")
          => /\ Len(out') = Len(out)
             /\ visited' = visited
             /\ batches' = batches
             /\ ips' = ips
             /\ pc' = "loop"
             /\ idx' = idx + 1]_vars

\* C16 witness: after an expanded hit that filled visited, the next label is
\* absent.
C16_Witness ==
    /\ Len(log) > 1
    /\ Len(cfg.subdomains) >= 2
    /\ IsAbsentLabelOp(Len(log))
    /\ LastOp.name = cfg.subdomains[2]
    /\ visited # {}
    /\ Printed("Found", cfg.subdomains[1])
    /\ pc = "loop"

\* Every call of the DNS collaborator so far has returned a record set or
\* absence (for the zone transfer: a zone, or one of its two tolerated
\* failures)
AllReturn == \A k \in DOMAIN log : log[k].res # "exception"

ZoneFailed ==
    \E k \in DOMAIN log :
        IsZoneOp(k) /\ log[k].res \in {"ConnectionResetError", "FormError"}

\* C17 as stated: when every call of the DNS collaborator returns and the
\* zone transfer has failed, the run does not end in an error, and when it
\* has ended each label of the subdomain list has been queried exactly once,
\* in list order.
C17_EveryLabelQueriedOnce ==
    (cfg.domain /\ AllReturn /\ ZoneFailed) =>
        /\ pc # "error"
        /\ Len(QueriedLabels) <= Len(cfg.subdomains)
        /\ QueriedLabels = SubSeq(cfg.subdomains, 1, Len(QueriedLabels))
        /\ pc = "done" => QueriedLabels = cfg.subdomains

\* The addresses passed to find_nearby by the hits so far
PassedToFindNearby == UNION {log[k].batch : k \in LoopPtrOps}

\* C18: visited is empty until the subdomain loop, is created there empty,
\* and no step of the run removes an address from it; whenever the run is not
\* between line 139 and the call of find_nearby (line 141), visited is exactly
\* the set of the addresses passed to find_nearby by the hits so far, and in
\* between it is that set and the batch about to be passed.
C18_VisitedOnlyGrows ==
    /\ [](pc \in {"start", "domain", "soa", "master", "xfr", "wildcard"}
             => visited = {})
    /\ [](pc # "nearby" => visited = PassedToFindNearby)
    /\ [](pc = "nearby" => /\ visited = PassedToFindNearby \cup ips
                           /\ ips \cap PassedToFindNearby = {})
    /\ [][visited \subseteq visited']_vars
    /\ [][visited' # visited => (pc = "loop" /\ pc' = "nearby")]_vars

\* C18 witness: between two iterations, after two hits that each passed a
\* batch of new addresses to find_nearby.
C18_Witness ==
    /\ pc = "loop"
    /\ Cardinality(LoopPtrOps) = 2
    /\ \A k \in LoopPtrOps : log[k].batch # {}
    /\ visited = PassedToFindNearby

\* The addresses of the hits reported before line j of the output
HitsBefore(j) ==
    UNION {out[i].addrs : i \in {i \in 1..(j - 1) : out[i].kind = "Found"}}

\* The number of lines printed when operation k was issued: the lines of the
\* stages before it
LinesBefore(k) ==
    Cardinality({j \in DOMAIN out :
        Rank(out[j]) < 5 + 2 * LabelIndex(log[k].name)})

\* C19: every address handed to find_nearby in the subdomain loop, and so
\* every address it looks up, has the first three octets of the address of a
\* hit that was reported before the lookups were issued (the hit of the same
\* label).
C19_LookupsNearAHit ==
    \A k \in LoopPtrOps :
        /\ log[k].addrs \subseteq log[k].batch
        /\ \A a \in log[k].batch :
               \E h \in HitsBefore(LinesBefore(k) + 1) : h[1] = a[1]
        /\ \A j \in DOMAIN out :
               (out[j].kind = "Found" /\ out[j].name = log[k].name)
                   => \A a \in log[k].batch, h \in out[j].addrs : h[1] = a[1]

\* C19 witness: the wide batch of a hit, all of it looked up.
C19_Witness ==
    \E k \in LoopPtrOps :
        /\ Cardinality(log[k].addrs) = ClassCSize
        /\ Printed("Found", log[k].name)

\* The A queries of labels that were answered with a record set
AnsweredLabelOps == {k \in DOMAIN log : IsLabelOp(k) /\ log[k].res = "answer"}

\* The neighbourhood of a hit under the configuration: its class-C network
\* with wide, the window of traverse around it otherwise
Neighbourhood(ip) ==
    IF cfg.wide THEN Window(ip, ClassCSize)
    ELSE IF cfg.traverse # None THEN Window(ip, cfg.traverse[1])
    ELSE {}

\* C20: for every label answered with a record set, the hit reported is the
\* first address of the set and nothing else, the candidates of its
\* expansion and the batch handed to find_nearby lie in the neighbourhood of
\* that first address, and visited holds only addresses of the neighbourhoods
\* of first addresses: another address of a record set is reported, made a
\* candidate or put in visited only when it lies in such a neighbourhood.
C20_FirstAddressIsTheHit ==
    /\ \A k \in AnsweredLabelOps :
           LET first == log[k].rrset[1]
               others == {log[k].rrset[i] : i \in 2..Len(log[k].rrset)}
           IN  /\ \E j \in DOMAIN out :
                      out[j].kind = "Found" /\ out[j].name = log[k].name
               /\ \A j \in DOMAIN out :
                      (out[j].kind = "Found" /\ out[j].name = log[k].name)
                          => out[j].addrs = {first}
               /\ \A p \in PtrOpsOf(log[k].name) :
                      /\ log[p].batch \subseteq Neighbourhood(first)
                      /\ (others \ Neighbourhood(first)) \cap log[p].batch = {}
                      /\ \A a \in ReportedAddrs(p) : a \in Neighbourhood(first)
    /\ visited \subseteq
           UNION {Neighbourhood(log[k].rrset[1]) : k \in AnsweredLabelOps}
    /\ \A b \in DOMAIN batches :
           batches[b].cand \subseteq
               UNION {Neighbourhood(log[k].rrset[1]) : k \in AnsweredLabelOps}

\* C20 witness: a label answered with two addresses, the second outside the
\* neighbourhood of the first; the first was reported and expanded, its batch
\* was looked up, and the second is not in visited.
C20_Witness ==
    \E k \in AnsweredLabelOps :
        /\ Len(log[k].rrset) = 2
        /\ log[k].rrset[2] \notin Neighbourhood(log[k].rrset[1])
        /\ \E p \in PtrOpsOf(log[k].name) :
               log[k].rrset[1] \in log[p].addrs /\ log[p].res = "answer"
        /\ log[k].rrset[2] \notin visited
        /\ log[k].rrset[1] \in visited
        /\ pc = "loop"

====
